---- MODULE Spec2Model ----
(***************************************************************************)
(* Tenant invitation and access provisioning of healthcare-form-mvp:       *)
(* short invite codes (src/lib/inviteCodes.ts), token invitations          *)
(* (src/lib/security.ts) and the team-management handlers                  *)
(* (TeamManagementSection.tsx), over the users / invite_codes /            *)
(* user_invitations relations and the identity provider.                   *)
(*                                                                         *)
(* Time is counted in days.  A nullable column holds <<>> for NULL and     *)
(* <<v>> for the value v; an e-mail or a code is the sequence of its       *)
(* characters, so "" and NULL are both <<>> (both are falsy in the code).  *)
(***************************************************************************)
EXTENDS Integers, Sequences, FiniteSets, TLC

\* ------------------------------------------------------------------ bounds
MaxTime == 3          \* the clock runs over 0..MaxTime
MaxInvites == 2       \* rows ever inserted into invite_codes
MaxInvitations == 1   \* rows ever inserted into user_invitations

\* ------------------------------------------------------- program constants
maxAttempts == 10     \* createInviteCode: code generation attempts
TokenExpiryDays == 7  \* createInvitation: expiresAt.getDate() + 7

\* ----------------------------------------------------------------- values
None == <<>>
Some(v) == <<v>>
IsNull(v) == v = <<>>
Val(v) == v[1]

Tenants == {"T1", "T2"}
NoBusiness == "none"
UserRole == {"owner", "manager", "staff"}

\* Characters: a bounded alphabet standing for the full one. "sharp_s" is
\* the one character U+00DF, a lower-case letter with no upper-case
\* character of its own.
toUpperCaseChar(c) ==
  CASE c = "a" -> "A"
    [] c = "b" -> "B"
    [] c = "x" -> "X"
    [] c = "s" -> "S"
    [] OTHER -> c

toLowerCaseChar(c) ==
  CASE c = "A" -> "a"
    [] c = "B" -> "b"
    [] c = "X" -> "x"
    [] c = "S" -> "s"
    [] OTHER -> c

\* String.prototype.toUpperCase follows the Unicode special casing: U+00DF
\* becomes the two letters SS, every other character maps to one character.
toUpperCaseOf(c) ==
  IF c = "sharp_s" THEN <<"S", "S">> ELSE <<toUpperCaseChar(c)>>

RECURSIVE toUpperCaseSpecial(_)
toUpperCaseSpecial(s) ==
  IF Len(s) = 0 THEN <<>>
  ELSE toUpperCaseOf(Head(s)) \o toUpperCaseSpecial(Tail(s))

\* Character by character where that is the whole conversion.
toUpperCase(s) ==
  IF \A i \in 1..Len(s) : s[i] # "sharp_s"
    THEN [i \in 1..Len(s) |-> toUpperCaseChar(s[i])]
    ELSE toUpperCaseSpecial(s)

toLowerCase(s) == [i \in 1..Len(s) |-> toLowerCaseChar(s[i])]

UpperLetters == {"A", "B", "S", "X"}
DigitChars == {"1", "2"}

\* /^[A-Z]{4}[0-9]{4}$/.test(code.toUpperCase())
isValidInviteCodeFormat(code) ==
  LET u == toUpperCase(code) IN
    /\ Len(u) = 8
    /\ \A i \in 1..4 : u[i] \in UpperLetters
    /\ \A i \in 5..8 : u[i] \in DigitChars

\* generateCode: 4 random letters followed by 4 random digits.
generateCode ==
  { l \o d : l \in [1..4 -> UpperLetters], d \in [1..4 -> DigitChars] }

\* The draws of the random source the model follows: one letter and one
\* digit repeated, first digit "1" (two codes).
CodePool ==
  { c \in generateCode :
      /\ c[1] \in {"A", "B"}
      /\ \A i \in 2..4 : c[i] = c[1]
      /\ \A i \in 5..8 : c[i] = "1" }

\* E-mail addresses.
EmailLowerA == <<"a", "@", "x">>
EmailUpperA == <<"A", "@", "X">>
EmailB == <<"b", "@", "x">>

\* ------------------------------------------------------------------ state
VARIABLES
  now,               \* the clock, new Date()
  authUsers,         \* identity provider: set of [id, email]
  users,             \* users table
  invite_codes,      \* invite_codes table
  user_invitations,  \* user_invitations table
  inviteSeq,         \* rows ever inserted into invite_codes (row ids)
  granted,           \* history: [invite, member] for each member row a redeem wrote
  redeem,            \* the useInviteCode call of each client (one call each)
  ret,               \* the outcome of the last completed call
  creating,          \* the createInviteCode call of each creator, await by await
  inviting,          \* the createInvitation call of each inviter, await by await
  accepting,         \* the InvitationAcceptanceSection of each browser session
  appState,          \* page.tsx: the appState of each signed-in browser
  businesses         \* businesses table: the ids of its rows

vars == <<now, authUsers, users, invite_codes, user_invitations, inviteSeq,
          granted, redeem, ret, creating, inviting, accepting, appState,
          businesses>>

\* Each client makes one useInviteCode call.
Clients == {"c1", "c2"}

\* Each creator makes one createInviteCode call followed await by await, each
\* inviter one createInvitation call; each acceptance session is one
\* rendering of InvitationAcceptanceSection.
Creators == {"k1", "k2"}
Inviters == {"i1", "i2"}
AcceptSessions == {"s1", "s2"}

\* The session user of a call: None when not signed in.
Owner1 == Some(1)
Manager1 == Some(2)
Staff1 == Some(3)
Owner2 == Some(4)
Orphan == Some(5)   \* an identity with no users row
Sessions == {None, Owner1, Manager1, Staff1, Owner2, Orphan}
AdminSessions == {Owner1, Staff1, Owner2}

Member(id, email, business, role) ==
  [id |-> id, email |-> email, business_id |-> business, role |-> role,
   is_active |-> TRUE]

InitUsers ==
  { Member(1, <<"o", "1">>, "T1", "owner"),
    Member(2, <<"m", "1">>, "T1", "manager"),
    Member(3, <<"s", "1">>, "T1", "staff"),
    Member(4, <<"o", "2">>, "T2", "owner") }

InitAuthUsers ==
  { [id |-> u.id, email |-> u.email] : u \in InitUsers }
    \cup { [id |-> 5, email |-> <<"n", "5">>] }

IdleCall ==
  [pc |-> "idle", code |-> <<>>, email |-> <<>>, inviteCode |-> None,
   authId |-> None, updateError |-> FALSE, result |-> "none", returned |-> None]

IdleCreate ==
  [pc |-> "idle", user |-> None, businessId |-> NoBusiness, role |-> "none",
   email |-> None, expiryDays |-> 0, code |-> <<>>, attempts |-> 0,
   existing |-> FALSE, lookupFailed |-> FALSE, err |-> "none"]

IdleInvite ==
  [pc |-> "idle", user |-> None, businessId |-> NoBusiness, email |-> <<>>,
   role |-> "none", err |-> "none"]

IdleAccept ==
  [pc |-> "idle", token |-> 0, invitation |-> None, authId |-> None,
   business_id |-> NoBusiness, loadedAt |-> 0, result |-> "none"]

\* The browsers that run page.tsx: one signed in as the staff member of T1,
\* one as the identity without a users row.
AppUsers == {3, 5}

NoRet ==
  [op |-> "none", user |-> None, business |-> NoBusiness, role |-> "none",
   id |-> 0, code |-> <<>>, err |-> "none", rows |-> <<>>, row |-> None,
   lookups |-> 0, param |-> <<>>]

Init ==
  /\ now = 0
  /\ authUsers = InitAuthUsers
  /\ users = InitUsers
  /\ invite_codes = {}
  /\ user_invitations = {}
  /\ inviteSeq = 0
  /\ granted = {}
  /\ redeem = [c \in Clients |-> IdleCall]
  /\ ret = NoRet
  /\ creating = [k \in Creators |-> IdleCreate]
  /\ inviting = [i \in Inviters |-> IdleInvite]
  /\ accepting = [a \in AcceptSessions |-> IdleAccept]
  /\ appState = [u \in AppUsers |-> "loading"]
  /\ businesses = Tenants

\* --------------------------------------------------------- authorization
\* supabase.from('users').select(...).eq('id', user.id).single()
userProfileOf(user) ==
  IF IsNull(user) THEN None
  ELSE LET found == { u \in users : u.id = Val(user) } IN
         IF Cardinality(found) = 1 THEN Some(CHOOSE u \in found : TRUE) ELSE None

\* security.ts hasRole / canManageTeam
hasRole(userRole, requiredRoles) == userRole \in requiredRoles
canManageTeam(userRole) == hasRole(userRole, {"owner", "manager"})

\* Faulty variant of createInviteCodeGuard: the role of the caller is not checked.
createInviteCodeGuardAnyRole(user, businessId) ==
  LET userProfile == userProfileOf(user) IN
    IF IsNull(user) THEN "NotAuthenticated"
    ELSE IF IsNull(userProfile) \/ Val(userProfile).business_id # businessId
      THEN "Unauthorized"
    ELSE "ok"

\* createInviteCode: the outcome of the permission checks, "ok" when they pass.
createInviteCodeGuard(user, businessId) ==
  LET userProfile == userProfileOf(user) IN
    IF IsNull(user) THEN "NotAuthenticated"
    ELSE IF IsNull(userProfile) \/ Val(userProfile).business_id # businessId
      THEN "Unauthorized"
    ELSE IF Val(userProfile).role \notin {"owner", "manager"}
      THEN "Unauthorized"
    ELSE "ok"

\* ------------------------------------------------------- createInviteCode
\* .eq('code', code).single(): data is non-null only when exactly one row matches
codeExists(code) == Cardinality({ r \in invite_codes : r.code = code }) = 1

\* The do/while generation loop from attempt number `attempts` on: the set of
\* its outcomes, a code the check found no row for or "exhausted".
RECURSIVE generateUnique(_)
generateUnique(attempts) ==
  { [err |-> "ok", code |-> c] : c \in { d \in CodePool : ~codeExists(d) } }
    \cup IF \E d \in CodePool : codeExists(d)
           THEN IF attempts >= maxAttempts
                  THEN { [err |-> "GenerationExhausted", code |-> <<>>] }
                  ELSE generateUnique(attempts + 1)
           ELSE {}

InviteRow(id, businessId, code, role, email, createdBy, expiresAt) ==
  [id |-> id, business_id |-> businessId, code |-> code, role |-> role,
   email |-> email, created_by |-> createdBy, used_by |-> None,
   used_at |-> None, expires_at |-> expiresAt, created_at |-> now]

createInviteCode(user, businessId, role, email, expiryDays) ==
  /\ inviteSeq < MaxInvites
  /\ LET guard == createInviteCodeGuard(user, businessId)
         call == [NoRet EXCEPT !.op = "createInviteCode", !.user = user,
                               !.business = businessId, !.role = role]
     IN
       IF guard # "ok"
         THEN /\ ret' = [call EXCEPT !.err = guard]
              /\ UNCHANGED <<invite_codes, inviteSeq>>
         ELSE \E g \in generateUnique(1) :
                IF g.err # "ok"
                  THEN /\ ret' = [call EXCEPT !.err = g.err]
                       /\ UNCHANGED <<invite_codes, inviteSeq>>
                  ELSE /\ invite_codes' = invite_codes \cup
                            { InviteRow(inviteSeq + 1, businessId, g.code, role,
                                        email, user, now + expiryDays) }
                       /\ inviteSeq' = inviteSeq + 1
                       /\ ret' = [call EXCEPT !.err = "ok", !.code = g.code,
                                              !.id = inviteSeq + 1]
  /\ UNCHANGED <<creating, inviting, accepting, appState, businesses,
                 now, authUsers, users, user_invitations, granted, redeem>>

\* ------------------------------------- createInviteCode, await by await
\* The permission checks of a call by creator k.
CreateBegin(k, user, businessId, role, email, expiryDays) ==
  /\ creating[k].pc = "idle"
  /\ LET guard == createInviteCodeGuard(user, businessId)
         call == [IdleCreate EXCEPT !.user = user, !.businessId = businessId,
                                    !.role = role, !.email = email,
                                    !.expiryDays = expiryDays]
     IN
       creating' = [creating EXCEPT ![k] =
         IF guard # "ok" THEN [call EXCEPT !.pc = "done", !.err = guard]
                         ELSE [call EXCEPT !.pc = "generating"]]
  /\ UNCHANGED <<now, authUsers, users, invite_codes, user_invitations,
                 inviteSeq, granted, redeem, ret, inviting, accepting, appState,
                 businesses>>

\* One pass of the do/while loop: generateCode() draws `code`, attempts++,
\* the existence lookup (.single(): data is null when the lookup fails, and
\* its error is not read), break / throw / next pass.
CreateAttempt(k, code, lookupFailed) ==
  /\ creating[k].pc = "generating"
  /\ LET attempts == creating[k].attempts + 1
         existing == ~lookupFailed /\ codeExists(code)
     IN
       creating' = [creating EXCEPT ![k] =
         IF ~existing
           THEN [@ EXCEPT !.code = code, !.attempts = attempts,
                          !.existing = FALSE, !.lookupFailed = lookupFailed,
                          !.pc = "inserting"]
         ELSE IF attempts >= maxAttempts
           THEN [@ EXCEPT !.code = code, !.attempts = attempts,
                          !.existing = TRUE, !.lookupFailed = FALSE,
                          !.pc = "done", !.err = "GenerationExhausted"]
         ELSE [@ EXCEPT !.code = code, !.attempts = attempts,
                        !.existing = TRUE, !.lookupFailed = FALSE]]
  /\ UNCHANGED <<now, authUsers, users, invite_codes, user_invitations,
                 inviteSeq, granted, redeem, ret, inviting, accepting, appState,
                 businesses>>

\* Faulty variant of codeIsTaken: the column has no uniqueness constraint.
codeIsTakenUnconstrained(code) == FALSE

\* The uniqueness constraint on invite_codes.code: an insert of a code some
\* row holds is rejected.
codeIsTaken(code) == \E r \in invite_codes : r.code = code

\* The insert and the return.
CreateInsert(k, failed) ==
  /\ creating[k].pc = "inserting"
  /\ IF failed \/ codeIsTaken(creating[k].code)
       THEN /\ creating' = [creating EXCEPT ![k].pc = "done",
                                            ![k].err = "InsertFailed"]
            /\ UNCHANGED <<invite_codes, inviteSeq>>
       ELSE /\ invite_codes' = invite_codes \cup
                 { InviteRow(inviteSeq + 1, creating[k].businessId,
                             creating[k].code, creating[k].role,
                             creating[k].email, creating[k].user,
                             now + creating[k].expiryDays) }
            /\ inviteSeq' = inviteSeq + 1
            /\ creating' = [creating EXCEPT ![k].pc = "done", ![k].err = "ok"]
  /\ UNCHANGED <<now, authUsers, users, user_invitations, granted, redeem, ret,
                 inviting, accepting, appState, businesses>>

\* ----------------------------------------------------- validateInviteCode
\* Faulty variant of validateInviteCode: the expiry is tested before used_at.
validateInviteCodeExpiryFirst(code) ==
  IF ~isValidInviteCodeFormat(code)
    THEN [err |-> "MalformedCredential", row |-> None, lookups |-> 0]
  ELSE LET found == { r \in invite_codes : r.code = toUpperCase(code) } IN
    IF Cardinality(found) # 1
      THEN [err |-> "NotFound", row |-> None, lookups |-> 1]
    ELSE LET inviteCode == CHOOSE r \in found : TRUE IN
      IF now > inviteCode.expires_at
        THEN [err |-> "Expired", row |-> None, lookups |-> 1]
      ELSE IF ~IsNull(inviteCode.used_at)
        THEN [err |-> "AlreadyUsed", row |-> None, lookups |-> 1]
      ELSE [err |-> "ok", row |-> Some(inviteCode), lookups |-> 1]

\* Faulty variant of validateInviteCode: the code is looked up as presented.
validateInviteCodeAsPresented(code) ==
  IF ~isValidInviteCodeFormat(code)
    THEN [err |-> "MalformedCredential", row |-> None, lookups |-> 0]
  ELSE LET found == { r \in invite_codes : r.code = code } IN
    IF Cardinality(found) # 1
      THEN [err |-> "NotFound", row |-> None, lookups |-> 1]
    ELSE LET inviteCode == CHOOSE r \in found : TRUE IN
      IF ~IsNull(inviteCode.used_at)
        THEN [err |-> "AlreadyUsed", row |-> None, lookups |-> 1]
      ELSE IF now > inviteCode.expires_at
        THEN [err |-> "Expired", row |-> None, lookups |-> 1]
      ELSE [err |-> "ok", row |-> Some(inviteCode), lookups |-> 1]

\* The outcome of validateInviteCode(code) against the store at time `now`;
\* lookups counts the queries the call sent to the store.
validateInviteCode(code) ==
  IF ~isValidInviteCodeFormat(code)
    THEN [err |-> "MalformedCredential", row |-> None, lookups |-> 0]
  ELSE LET found == { r \in invite_codes : r.code = toUpperCase(code) } IN
    IF Cardinality(found) # 1      \* .single(): error unless exactly one row
      THEN [err |-> "NotFound", row |-> None, lookups |-> 1]
    ELSE LET inviteCode == CHOOSE r \in found : TRUE IN
      IF ~IsNull(inviteCode.used_at)
        THEN [err |-> "AlreadyUsed", row |-> None, lookups |-> 1]
      ELSE IF now > inviteCode.expires_at
        THEN [err |-> "Expired", row |-> None, lookups |-> 1]
      ELSE [err |-> "ok", row |-> Some(inviteCode), lookups |-> 1]

\* Faulty variant of ValidateCall: a code that validates is marked used.
ValidateCallConsuming(code) ==
  /\ LET v == validateInviteCode(code) IN
       /\ ret' = [NoRet EXCEPT !.op = "validateInviteCode", !.code = code,
                               !.err = v.err, !.row = v.row,
                               !.lookups = v.lookups]
       /\ invite_codes' =
            { IF ~IsNull(v.row) /\ r.id = Val(v.row).id
                THEN [r EXCEPT !.used_at = Some(now)] ELSE r : r \in invite_codes }
  /\ UNCHANGED <<creating, inviting, accepting, appState, businesses,
                 now, authUsers, users, user_invitations, inviteSeq, granted,
                 redeem>>

\* A client calls validateInviteCode (InviteCodeSection.handleValidateCode).
ValidateCall(code) ==
  /\ LET v == validateInviteCode(code) IN
       ret' = [NoRet EXCEPT !.op = "validateInviteCode", !.code = code,
                            !.err = v.err, !.row = v.row,
                            !.lookups = v.lookups]
  /\ UNCHANGED <<creating, inviting, accepting, appState, businesses,
                 now, authUsers, users, invite_codes, user_invitations,
                 inviteSeq, granted, redeem>>

\* ---------------------------------------------------------- useInviteCode
\* Faulty variant of emailMismatch: the addresses are compared as written.
emailMismatchCaseSensitive(inviteEmail, email) ==
  /\ ~IsNull(inviteEmail)
  /\ inviteEmail # email

\* inviteCode.email && inviteCode.email.toLowerCase() !== userData.email.toLowerCase()
emailMismatch(inviteEmail, email) ==
  /\ ~IsNull(inviteEmail)
  /\ toLowerCase(inviteEmail) # toLowerCase(email)

\* Faulty variant of existingUser: the filter matches no row.
existingUserNoMatch(email) == FALSE

\* .from('users').select('id').eq('email', userData.email).single()
\* (.maybeSingle() in the later revision: data is null unless one row matches)
existingUser(email) == Cardinality({ u \in users : u.email = email }) = 1

Finish(c, result) ==
  redeem' = [redeem EXCEPT ![c].pc = "done", ![c].result = result]

\* Faulty variant of UseValidate: the code is marked used as soon as it
\* validates, before the e-mail binding check.
UseValidateMarkFirst(c, code, email) ==
  /\ redeem[c].pc = "idle"
  /\ LET v == validateInviteCode(code)
         call == [IdleCall EXCEPT !.code = code, !.email = email]
     IN
       IF v.err # "ok"
         THEN /\ redeem' = [redeem EXCEPT ![c] = [call EXCEPT !.pc = "done",
                                                              !.result = v.err]]
              /\ UNCHANGED invite_codes
         ELSE /\ invite_codes' =
                   { IF r.id = Val(v.row).id
                       THEN [r EXCEPT !.used_at = Some(now)] ELSE r :
                     r \in invite_codes }
              /\ IF emailMismatch(Val(v.row).email, email)
                   THEN redeem' = [redeem EXCEPT ![c] =
                          [call EXCEPT !.pc = "done", !.result = "EmailMismatch"]]
                   ELSE redeem' = [redeem EXCEPT ![c] =
                          [call EXCEPT !.pc = "validated", !.inviteCode = v.row]]
  /\ UNCHANGED <<creating, inviting, accepting, appState, businesses,
                 now, authUsers, users, user_invitations, inviteSeq, granted, ret>>

\* useInviteCode up to its first store read: validateInviteCode, then the
\* e-mail binding check.
UseValidate(c, code, email) ==
  /\ redeem[c].pc = "idle"
  /\ LET v == validateInviteCode(code)
         call == [IdleCall EXCEPT !.code = code, !.email = email]
     IN
       IF v.err # "ok"
         THEN redeem' = [redeem EXCEPT ![c] = [call EXCEPT !.pc = "done",
                                                           !.result = v.err]]
       ELSE IF emailMismatch(Val(v.row).email, email)
         THEN redeem' = [redeem EXCEPT ![c] = [call EXCEPT !.pc = "done",
                                                 !.result = "EmailMismatch"]]
       ELSE redeem' = [redeem EXCEPT ![c] = [call EXCEPT !.pc = "validated",
                                                         !.inviteCode = v.row]]
  /\ UNCHANGED <<creating, inviting, accepting, appState, businesses,
                 now, authUsers, users, invite_codes, user_invitations,
                 inviteSeq, granted, ret>>

\* The existing-user lookup.
UseCheckExisting(c) ==
  /\ redeem[c].pc = "validated"
  /\ IF existingUser(redeem[c].email)
       THEN Finish(c, "AlreadyRegistered")
       ELSE redeem' = [redeem EXCEPT ![c].pc = "checked"]
  /\ UNCHANGED <<creating, inviting, accepting, appState, businesses,
                 now, authUsers, users, invite_codes, user_invitations,
                 inviteSeq, granted, ret>>

\* supabase.auth.signUp: the provider keeps one identity per e-mail address
\* (compared in lower case) and may refuse for its own reasons.
UseSignUp(c, refused) ==
  /\ redeem[c].pc = "checked"
  /\ IF refused \/ \E a \in authUsers :
                     toLowerCase(a.email) = toLowerCase(redeem[c].email)
       THEN /\ Finish(c, "AuthError")
            /\ UNCHANGED authUsers
       ELSE LET id == Cardinality(authUsers) + 1 IN
              /\ authUsers' = authUsers \cup { [id |-> id, email |-> redeem[c].email] }
              /\ redeem' = [redeem EXCEPT ![c].pc = "signedUp",
                                          ![c].authId = Some(id)]
  /\ UNCHANGED <<creating, inviting, accepting, appState, businesses,
                 now, users, invite_codes, user_invitations, inviteSeq,
                 granted, ret>>

\* supabase.auth.signUp for an address that already has an identity, when the
\* provider does not refuse: it answers without error, either with a made-up
\* user that is stored nowhere ("obfuscated", id 0) or, for an identity whose
\* address is not confirmed yet, with that identity ("unconfirmed").
UseSignUpRepeated(c, outcome) ==
  /\ redeem[c].pc = "checked"
  /\ \E a \in authUsers :
       /\ toLowerCase(a.email) = toLowerCase(redeem[c].email)
       /\ redeem' = [redeem EXCEPT
            ![c].pc = "signedUp",
            ![c].authId = IF outcome = "unconfirmed" THEN Some(a.id) ELSE Some(0)]
  /\ UNCHANGED <<creating, inviting, accepting, appState, businesses,
                 now, authUsers, users, invite_codes, user_invitations,
                 inviteSeq, granted, ret>>

\* Faulty variant of profileRow: the role is left to the column default.
profileRowDefaultRole(id, email, inviteCode) ==
  Member(id, email, inviteCode.business_id, "staff")

\* The users row useInviteCode writes.
profileRow(id, email, inviteCode) ==
  Member(id, email, inviteCode.business_id, inviteCode.role)

\* users.id REFERENCES auth.users(id)
hasIdentity(id) == \E a \in authUsers : a.id = id

\* .from('users').insert({...}): id is the primary key.
UseInsertProfile(c, failed) ==
  /\ redeem[c].pc = "signedUp"
  /\ LET inviteCode == Val(redeem[c].inviteCode)
         id == Val(redeem[c].authId)
     IN
       IF failed \/ ~hasIdentity(id) \/ \E u \in users : u.id = id
         THEN /\ Finish(c, "ProfileProvisioningFailed")
              /\ UNCHANGED <<users, granted>>
         ELSE /\ users' = users \cup { profileRow(id, redeem[c].email, inviteCode) }
              /\ granted' = granted \cup { [invite |-> inviteCode.id, member |-> id] }
              /\ redeem' = [redeem EXCEPT ![c].pc = "profiled"]
  /\ UNCHANGED <<creating, inviting, accepting, appState, businesses,
                 now, authUsers, invite_codes, user_invitations, inviteSeq, ret>>

\* The later revision: .from('users').upsert({...}, { onConflict: 'id' }),
\* which replaces the row that has this id, if there is one.
UseUpsertProfile(c, failed) ==
  /\ redeem[c].pc = "signedUp"
  /\ LET inviteCode == Val(redeem[c].inviteCode)
         id == Val(redeem[c].authId)
     IN
       IF failed \/ ~hasIdentity(id)
         THEN /\ Finish(c, "ProfileProvisioningFailed")
              /\ UNCHANGED <<users, granted>>
         ELSE /\ users' = { u \in users : u.id # id }
                            \cup { profileRow(id, redeem[c].email, inviteCode) }
              /\ granted' = granted \cup { [invite |-> inviteCode.id, member |-> id] }
              /\ redeem' = [redeem EXCEPT ![c].pc = "profiled"]
  /\ UNCHANGED <<creating, inviting, accepting, appState, businesses,
                 now, authUsers, invite_codes, user_invitations, inviteSeq, ret>>

\* Faulty variant of markUsed: used_by is not written.
markUsedWithoutUser(row, id, userId) ==
  IF row.id = id
    THEN [row EXCEPT !.used_at = Some(now)]
    ELSE row

\* .from('invite_codes').update({used_by, used_at}).eq('id', inviteCode.id)
markUsed(row, id, userId) ==
  IF row.id = id
    THEN [row EXCEPT !.used_by = Some(userId), !.used_at = Some(now)]
    ELSE row

\* What a successful useInviteCode returns.
useInviteCodeReturn(c) ==
  Some([userId |-> Val(redeem[c].authId),
        businessId |-> Val(redeem[c].inviteCode).business_id])

\* Faulty variant of UseMarkUsed: a failed update is thrown to the caller.
UseMarkUsedFatal(c, failed) ==
  /\ redeem[c].pc = "profiled"
  /\ IF failed
       THEN /\ UNCHANGED invite_codes
            /\ redeem' = [redeem EXCEPT ![c].pc = "done",
                                        ![c].updateError = TRUE,
                                        ![c].result = "TransientError"]
       ELSE /\ invite_codes' =
                 { markUsed(r, Val(redeem[c].inviteCode).id, Val(redeem[c].authId)) :
                     r \in invite_codes }
            /\ redeem' = [redeem EXCEPT ![c].pc = "done", ![c].result = "ok",
                                        ![c].returned = useInviteCodeReturn(c)]
  /\ UNCHANGED <<creating, inviting, accepting, appState, businesses,
                 now, authUsers, users, user_invitations, inviteSeq, granted, ret>>

\* The mark-used update (its error is only logged), the sign-in and the return.
UseMarkUsed(c, failed) ==
  /\ redeem[c].pc = "profiled"
  /\ IF failed
       THEN UNCHANGED invite_codes
       ELSE invite_codes' =
              { markUsed(r, Val(redeem[c].inviteCode).id, Val(redeem[c].authId)) :
                  r \in invite_codes }
  /\ redeem' = [redeem EXCEPT ![c].pc = "done", ![c].updateError = failed,
                              ![c].result = "ok",
                              ![c].returned = useInviteCodeReturn(c)]
  /\ UNCHANGED <<creating, inviting, accepting, appState, businesses,
                 now, authUsers, users, user_invitations, inviteSeq, granted, ret>>

\* The caller goes away after the member row is written: the rest never runs.
UseAbandon(c) ==
  /\ redeem[c].pc = "profiled"
  /\ Finish(c, "abandoned")
  /\ UNCHANGED <<creating, inviting, accepting, appState, businesses,
                 now, authUsers, users, invite_codes, user_invitations,
                 inviteSeq, granted, ret>>

\* ------------------------------------------------- security.ts (tokens)
\* getCurrentUserProfile: the users row joined (inner) with its business
getCurrentUserProfile(user) ==
  LET profile == userProfileOf(user) IN
    IF IsNull(profile) \/ Val(profile).business_id \notin businesses
      THEN None
      ELSE profile

\* !profile || profile.business_id !== businessId || !canManageTeam(profile.role)
createInvitationDenied(user, businessId) ==
  LET profile == getCurrentUserProfile(user) IN
    \/ IsNull(profile)
    \/ Val(profile).business_id # businessId
    \/ ~canManageTeam(Val(profile).role)

\* .eq('business_id', ..).eq('email', ..).is('accepted_at', null).gt('expires_at', now)
pendingInvitations(businessId, email) ==
  { i \in user_invitations :
      /\ i.business_id = businessId
      /\ i.email = email
      /\ IsNull(i.accepted_at)
      /\ i.expires_at > now }

createInvitation(user, businessId, email, role) ==
  /\ Cardinality(user_invitations) < MaxInvitations
  /\ LET call == [NoRet EXCEPT !.op = "createInvitation", !.user = user,
                               !.business = businessId, !.role = role]
         token == Cardinality(user_invitations) + 1
     IN
       IF createInvitationDenied(user, businessId)
         THEN /\ ret' = [call EXCEPT !.err = "Unauthorized"]
              /\ UNCHANGED user_invitations
       ELSE IF existingUser(email)
         THEN /\ ret' = [call EXCEPT !.err = "AlreadyRegistered"]
              /\ UNCHANGED user_invitations
       ELSE IF Cardinality(pendingInvitations(businessId, email)) = 1
         THEN /\ ret' = [call EXCEPT !.err = "AlreadyInvited"]
              /\ UNCHANGED user_invitations
       ELSE /\ user_invitations' = user_invitations \cup
                 { [id |-> token, business_id |-> businessId, email |-> email,
                    role |-> role, invited_by |-> Val(user), token |-> token,
                    expires_at |-> now + TokenExpiryDays, accepted_at |-> None,
                    created_at |-> now] }
            /\ ret' = [call EXCEPT !.err = "ok", !.id = token]
  /\ UNCHANGED <<creating, inviting, accepting, appState, businesses,
                 now, authUsers, users, invite_codes, inviteSeq, granted, redeem>>

\* Faulty variant of newestFirst: the rows come back oldest first.
oldestFirst(rows) ==
  { s \in [1..Cardinality(rows) -> rows] :
      /\ \A i, j \in 1..Cardinality(rows) : i # j => s[i] # s[j]
      /\ \A i, j \in 1..Cardinality(rows) : i < j => s[i].created_at <= s[j].created_at }

\* The orderings .order('created_at', {ascending: false}) may return.
newestFirst(rows) ==
  { s \in [1..Cardinality(rows) -> rows] :
      /\ \A i, j \in 1..Cardinality(rows) : i # j => s[i] # s[j]
      /\ \A i, j \in 1..Cardinality(rows) : i < j => s[i].created_at >= s[j].created_at }

getTeamData(user, businessId) ==
  /\ LET profile == getCurrentUserProfile(user)
         call == [NoRet EXCEPT !.op = "getTeamData", !.user = user,
                               !.business = businessId]
     IN
       IF IsNull(profile) \/ Val(profile).business_id # businessId
         THEN ret' = [call EXCEPT !.err = "Unauthorized"]
       ELSE IF ~canManageTeam(Val(profile).role)
         THEN ret' = [call EXCEPT !.err = "Unauthorized"]
       ELSE \E s \in newestFirst({ i \in user_invitations :
                                     /\ i.business_id = businessId
                                     /\ IsNull(i.accepted_at)
                                     /\ i.expires_at > now }) :
              ret' = [call EXCEPT !.err = "ok", !.rows = s]
  /\ UNCHANGED <<creating, inviting, accepting, appState, businesses,
                 now, authUsers, users, invite_codes, user_invitations,
                 inviteSeq, granted, redeem>>

\* ---------------------------------------------- administration of codes
\* getBusinessInviteCodes(businessId), called under the session of `user`
getBusinessInviteCodes(user, businessId) ==
  /\ \E s \in newestFirst({ r \in invite_codes : r.business_id = businessId }) :
       ret' = [NoRet EXCEPT !.op = "getBusinessInviteCodes", !.user = user,
                            !.business = businessId, !.err = "ok", !.rows = s]
  /\ UNCHANGED <<creating, inviting, accepting, appState, businesses,
                 now, authUsers, users, invite_codes, user_invitations,
                 inviteSeq, granted, redeem>>

\* Faulty variant of deleteMatches: the delete filters on the id alone.
deleteMatchesIdOnly(row, codeId, businessId) ==
  row.id = codeId

\* .delete().eq("id", codeId).eq("business_id", businessId)
deleteMatches(row, codeId, businessId) ==
  /\ row.id = codeId
  /\ row.business_id = businessId

\* handleDeleteInviteCode(codeId) of a TeamManagementSection rendered with
\* businessId, under the session of `user`: the delete reports an error only
\* when the store does, otherwise "Invite code deleted" is shown.
handleDeleteInviteCode(user, businessId, codeId) ==
  /\ invite_codes' = { r \in invite_codes : ~deleteMatches(r, codeId, businessId) }
  /\ ret' = [NoRet EXCEPT !.op = "handleDeleteInviteCode", !.user = user,
                          !.business = businessId, !.id = codeId, !.err = "ok"]
  /\ UNCHANGED <<creating, inviting, accepting, appState, businesses,
                 now, authUsers, users, user_invitations, inviteSeq, granted,
                 redeem>>

\* ------------------------------------------------------------------ clock
Tick ==
  /\ now < MaxTime
  /\ now' = now + 1
  /\ UNCHANGED <<creating, inviting, accepting, appState, businesses,
                 authUsers, users, invite_codes, user_invitations, inviteSeq,
                 granted, redeem, ret>>

\* --------------------------------------------------------- specifications
\* Redemption: an owner issues codes, two clients redeem them concurrently.
RedeemEmails == {EmailLowerA, EmailUpperA, EmailB}

Next ==
  \/ \E role \in {"owner", "manager"}, email \in {None, EmailLowerA} :
       createInviteCode(Owner1, "T1", role, email, 1)
  \/ \E c \in Clients, code \in CodePool, email \in RedeemEmails :
       UseValidate(c, code, email)
  \/ \E c \in Clients : UseCheckExisting(c)
  \/ \E c \in Clients : UseSignUp(c, FALSE)
  \/ \E c \in Clients : UseInsertProfile(c, FALSE)
  \/ \E c \in Clients, failed \in BOOLEAN : UseMarkUsed(c, failed)
  \/ \E c \in Clients : UseAbandon(c)

Spec == Init /\ [][Next]_vars

\* Issuing: every session asks for codes and token invitations, of the owner
\* role and of an invitable one, in every tenant.
NextCreate ==
  \/ \E user \in Sessions, b \in Tenants, role \in {"owner", "staff"} :
       createInviteCode(user, b, role, None, 1)
  \/ \E user \in Sessions, b \in Tenants, role \in {"owner", "staff"} :
       createInvitation(user, b, EmailB, role)

SpecCreate == Init /\ [][NextCreate]_vars

\* Administration: the owners issue codes; an owner, a staff member and a
\* member of the other tenant list and delete in every tenant.
NextAdmin ==
  \/ createInviteCode(Owner1, "T1", "staff", None, 1)
  \/ createInviteCode(Owner2, "T2", "staff", None, 1)
  \/ \E b \in Tenants : createInvitation(Owner1, b, EmailB, "staff")
  \/ \E user \in AdminSessions, b \in Tenants : getTeamData(user, b)
  \/ \E user \in AdminSessions, b \in Tenants : getBusinessInviteCodes(user, b)
  \/ \E user \in AdminSessions, b \in Tenants, id \in 1..(MaxInvites + 1) :
       handleDeleteInviteCode(user, b, id)

SpecAdmin == Init /\ [][NextAdmin]_vars

\* Validation: codes are issued, time passes, one client redeems, codes are
\* presented to the validator.
Presented ==
  CodePool \cup { toLowerCase(c) : c \in CodePool }
    \cup { <<"A", "A", "A", "A", "2", "2", "2", "2">>, <<"A", "1">> }

NextValidate ==
  \/ \E days \in {1, 2} : createInviteCode(Owner1, "T1", "staff", None, days)
  \/ \E code \in Presented : ValidateCall(code)
  \/ \E code \in CodePool : UseValidate("c1", code, EmailB)
  \/ UseCheckExisting("c1")
  \/ UseSignUp("c1", FALSE)
  \/ UseInsertProfile("c1", FALSE)
  \/ UseMarkUsed("c1", FALSE)
  \/ Tick

SpecValidate == Init /\ [][NextValidate]_vars

\* Race: one owner issues unbound codes and two clients redeem them with
\* different addresses; no store call fails and no caller goes away.
NextRace ==
  \/ createInviteCode(Owner1, "T1", "manager", None, 1)
  \/ \E c \in Clients, code \in CodePool, email \in {EmailLowerA, EmailB} :
       UseValidate(c, code, email)
  \/ \E c \in Clients : UseCheckExisting(c)
  \/ \E c \in Clients : UseSignUp(c, FALSE)
  \/ \E c \in Clients : UseInsertProfile(c, FALSE)
  \/ \E c \in Clients : UseMarkUsed(c, FALSE)

SpecRace == Init /\ [][NextRace]_vars

\* Sequence: the calls of the two clients follow one another (a call starts
\* only when no other is in flight); the mark-used update may fail and the
\* caller may go away once the member row is written.
UseValidateAlone(c, code, email) ==
  /\ \A d \in Clients \ {c} : redeem[d].pc \in {"idle", "done"}
  /\ UseValidate(c, code, email)

NextSeq ==
  \/ createInviteCode(Owner1, "T1", "manager", None, 1)
  \/ \E code \in CodePool : ValidateCall(code)
  \/ \E c \in Clients, code \in CodePool, email \in {EmailLowerA, EmailB} :
       UseValidateAlone(c, code, email)
  \/ \E c \in Clients : UseCheckExisting(c)
  \/ \E c \in Clients : UseSignUp(c, FALSE)
  \/ \E c \in Clients : UseInsertProfile(c, FALSE)
  \/ \E c \in Clients, failed \in BOOLEAN : UseMarkUsed(c, failed)
  \/ \E c \in Clients : UseAbandon(c)

SpecSeq == Init /\ [][NextSeq]_vars

\* Provisioning: the owners of both tenants issue unbound codes; two clients
\* redeem them, also with the address of an existing member; the provider
\* may answer a repeated sign-up in each of its ways, and the member write
\* and the mark-used update may fail.
OwnerEmail == <<"o", "1">>
SignUpOutcomes == {"obfuscated", "unconfirmed"}

NextRedeem ==
  \/ createInviteCode(Owner1, "T1", "manager", None, 1)
  \/ createInviteCode(Owner2, "T2", "staff", None, 1)
  \/ \E c \in Clients, code \in CodePool,
        email \in {OwnerEmail, EmailLowerA, EmailUpperA, EmailB} :
       UseValidate(c, code, email)
  \/ \E c \in Clients : UseCheckExisting(c)
  \/ \E c \in Clients : UseSignUp(c, FALSE)
  \/ \E c \in Clients, outcome \in SignUpOutcomes : UseSignUpRepeated(c, outcome)
  \/ \E c \in Clients, failed \in BOOLEAN : UseInsertProfile(c, failed)
  \/ \E c \in Clients, failed \in BOOLEAN : UseMarkUsed(c, failed)

SpecRedeem == Init /\ [][NextRedeem]_vars

\* The same with the member write of the later revision (upsert on id).
NextUpsert ==
  \/ createInviteCode(Owner1, "T1", "manager", None, 1)
  \/ createInviteCode(Owner2, "T2", "staff", None, 1)
  \/ \E c \in Clients, code \in CodePool,
        email \in {OwnerEmail, EmailLowerA, EmailUpperA, EmailB} :
       UseValidate(c, code, email)
  \/ \E c \in Clients : UseCheckExisting(c)
  \/ \E c \in Clients : UseSignUp(c, FALSE)
  \/ \E c \in Clients, outcome \in SignUpOutcomes : UseSignUpRepeated(c, outcome)
  \/ \E c \in Clients, failed \in BOOLEAN : UseUpsertProfile(c, failed)
  \/ \E c \in Clients, failed \in BOOLEAN : UseMarkUsed(c, failed)

SpecUpsert == Init /\ [][NextUpsert]_vars

\* Failure: codes, some bound to an address, are validated and redeemed while
\* time passes; the provider may refuse the sign-up.
NextFail ==
  \/ \E email \in {None, EmailLowerA} :
       createInviteCode(Owner1, "T1", "staff", email, 1)
  \/ \E code \in CodePool : ValidateCall(code)
  \/ \E c \in Clients, code \in CodePool, email \in {OwnerEmail, EmailB} :
       UseValidate(c, code, email)
  \/ \E c \in Clients : UseCheckExisting(c)
  \/ \E c \in Clients, refused \in BOOLEAN : UseSignUp(c, refused)
  \/ \E c \in Clients : UseInsertProfile(c, FALSE)
  \/ \E c \in Clients : UseMarkUsed(c, FALSE)
  \/ Tick

SpecFail == Init /\ [][NextFail]_vars

\* Retry: client c1 redeems and its member write may fail; client c2 redeems
\* once the call of c1 has ended, and the store does not fail it.
UseValidateAfter(c, d, code, email) ==
  /\ redeem[d].pc = "done"
  /\ UseValidate(c, code, email)

NextRetry ==
  \/ \E role \in {"manager", "staff"} :
       createInviteCode(Owner1, "T1", role, None, 1)
  \/ \E code \in CodePool, email \in {EmailLowerA, EmailB} :
       UseValidate("c1", code, email)
  \/ \E code \in CodePool, email \in {EmailLowerA, EmailB} :
       UseValidateAfter("c2", "c1", code, email)
  \/ \E c \in Clients : UseCheckExisting(c)
  \/ \E c \in Clients : UseSignUp(c, FALSE)
  \/ \E c \in Clients, outcome \in SignUpOutcomes : UseSignUpRepeated(c, outcome)
  \/ \E failed \in BOOLEAN : UseInsertProfile("c1", failed)
  \/ UseInsertProfile("c2", FALSE)
  \/ \E c \in Clients : UseMarkUsed(c, FALSE)

SpecRetry == Init /\ [][NextRetry]_vars

\* Generation: an owner seeds codes in one step each; two creators then
\* create codes concurrently, await by await, and an existence lookup may fail.
NextGenerate ==
  \/ createInviteCode(Owner1, "T1", "staff", None, 1)
  \/ \E k \in Creators, user \in {Owner1, Owner2}, b \in Tenants :
       CreateBegin(k, user, b, "staff", None, 1)
  \/ \E k \in Creators, code \in CodePool, lookupFailed \in BOOLEAN :
       CreateAttempt(k, code, lookupFailed)
  \/ \E k \in Creators, failed \in BOOLEAN : CreateInsert(k, failed)

SpecGenerate == Init /\ [][NextGenerate]_vars

\* Window: inviters create codes with expiryDays arguments inside and
\* outside the window the form offers, and token invitations, as time passes.
ExpiryArgs == {-1, 0, 1, 30, 31}

NextWindow ==
  \/ \E user \in {Owner1, Manager1}, days \in ExpiryArgs :
       createInviteCode(user, "T1", "staff", None, days)
  \/ \E email \in {EmailLowerA, EmailB} :
       createInvitation(Owner1, "T1", email, "staff")
  \/ Tick

SpecWindow == Init /\ [][NextWindow]_vars

\* Round trip: the inviters of two tenants issue unbound seven-day codes and
\* codes are presented to the validator in either letter case.
NextRoundTrip ==
  \/ \E user \in {Owner1, Manager1, Owner2}, b \in Tenants,
        role \in {"manager", "staff"} :
       createInviteCode(user, b, role, None, 7)
  \/ \E code \in Presented : ValidateCall(code)
  \/ Tick

SpecRoundTrip == Init /\ [][NextRoundTrip]_vars

\* ------------------------------------------------------------ invite links
\* TeamManagementSection formatCodeForDisplay: ABCD-1234
formatCodeForDisplay(code) == SubSeq(code, 1, 4) \o <<"-">> \o SubSeq(code, 5, Len(code))

\* String.prototype.replace("-", ""): the first occurrence only.
RECURSIVE replaceFirstHyphen(_)
replaceFirstHyphen(s) ==
  IF s = <<>> THEN <<>>
  ELSE IF Head(s) = "-" THEN Tail(s)
  ELSE <<Head(s)>> \o replaceFirstHyphen(Tail(s))

\* page.tsx: inviteParam.toUpperCase().replace("-", "")
cleanCode(inviteParam) == replaceFirstHyphen(toUpperCase(inviteParam))

\* inviteCodes.ts extractInviteCodeFromUrl on a URL whose invite parameter is
\* inviteParam (the empty sequence: no parameter).
extractInviteCodeFromUrl(inviteParam) ==
  IF inviteParam = <<>> THEN None ELSE Some(toUpperCase(inviteParam))

\* page.tsx useEffect: the page is opened with ?invite=inviteParam; the cleaned
\* code becomes the inviteCode handed to the invite-code screen.
OpenInviteLink(inviteParam) ==
  /\ inviteParam # <<>>
  /\ ret' = [NoRet EXCEPT !.op = "openInviteLink", !.param = inviteParam,
                          !.code = cleanCode(inviteParam)]
  /\ UNCHANGED <<now, authUsers, users, invite_codes, user_invitations,
                 inviteSeq, granted, redeem, creating, inviting, accepting,
                 appState, businesses>>

ExtractInviteCode(inviteParam) ==
  /\ LET code == extractInviteCodeFromUrl(inviteParam) IN
       ret' = [NoRet EXCEPT !.op = "extractInviteCodeFromUrl",
                            !.param = inviteParam,
                            !.code = IF IsNull(code) THEN <<>> ELSE Val(code),
                            !.err = IF IsNull(code) THEN "null" ELSE "ok"]
  /\ UNCHANGED <<now, authUsers, users, invite_codes, user_invitations,
                 inviteSeq, granted, redeem, creating, inviting, accepting,
                 appState, businesses>>

\* The ways a link can write code C: either letter case; bare, in the
\* XXXX-XXXX display form, or with separators after every second letter.
LinkForms(C) ==
  UNION { { s,
            formatCodeForDisplay(s),
            SubSeq(s, 1, 2) \o <<"-">> \o SubSeq(s, 3, 4) \o <<"-">> \o SubSeq(s, 5, 8) }
          : s \in {C, toLowerCase(C)} }

\* The code taken from the link is passed to the validator.
ValidateFromLink ==
  /\ ret.op \in {"openInviteLink", "extractInviteCodeFromUrl"}
  /\ ValidateCall(ret.code)

\* Links: codes are issued, links to them are opened, and the code taken
\* from the link is validated.
NextLink ==
  \/ createInviteCode(Owner1, "T1", "staff", None, 7)
  \/ \E C \in CodePool : \E p \in LinkForms(C) : OpenInviteLink(p)
  \/ \E C \in CodePool : \E p \in LinkForms(C) \cup {<<>>} : ExtractInviteCode(p)
  \/ ValidateFromLink
  \/ Tick

SpecLink == Init /\ [][NextLink]_vars

\* ------------------------------------------------------------ code format
\* generateCode() returns one of its codes.
GenerateCodeCall ==
  /\ \E code \in generateCode :
       ret' = [NoRet EXCEPT !.op = "generateCode", !.code = code]
  /\ UNCHANGED <<now, authUsers, users, invite_codes, user_invitations,
                 inviteSeq, granted, redeem, creating, inviting, accepting,
                 appState, businesses>>

\* isValidInviteCodeFormat(code) returns true or false.
FormatCall(code) ==
  /\ ret' = [NoRet EXCEPT !.op = "isValidInviteCodeFormat", !.param = code,
                          !.err = IF isValidInviteCodeFormat(code)
                                    THEN "true" ELSE "false"]
  /\ UNCHANGED <<now, authUsers, users, invite_codes, user_invitations,
                 inviteSeq, granted, redeem, creating, inviting, accepting,
                 appState, businesses>>

\* The strings presented to the format check: three to five characters that
\* are letters of either case, U+00DF or a digit, then three to five
\* characters that are a digit or a letter.
FormatInputs ==
  { l \o d : l \in UNION { [1..k -> {"A", "a", "sharp_s", "1"}] : k \in 3..5 },
             d \in UNION { [1..m -> {"1", "a"}] : m \in 3..5 } }

\* Format: one call of either function per behaviour; neither reads the state.
GenerateOnce == ret.op = "none" /\ GenerateCodeCall

FormatOnce == ret.op = "none" /\ \E code \in FormatInputs : FormatCall(code)

NextFormat ==
  \/ GenerateOnce
  \/ FormatOnce

SpecFormat == Init /\ [][NextFormat]_vars

\* Listing: the owners of two tenants issue and delete codes as time passes,
\* and sessions of either tenant list the codes of either tenant.
NextList ==
  \/ createInviteCode(Owner1, "T1", "staff", None, 7)
  \/ createInviteCode(Owner2, "T2", "staff", None, 7)
  \/ \E user \in {Owner1, Owner2}, b \in Tenants : getBusinessInviteCodes(user, b)
  \/ \E user \in {Owner1, Owner2}, id \in 1..MaxInvites :
       handleDeleteInviteCode(user, Val(userProfileOf(user)).business_id, id)
  \/ Tick

SpecList == Init /\ [][NextList]_vars

\* ------------------------------------------------------ page.tsx onboarding
\* loadUserProfile(userId) against the users table `rows`: the appState it
\* sets. The lookup is .eq("id", userId).maybeSingle(); an error or an
\* exception of the lookup leads to "onboarding".
loadUserProfileState(rows, userId, failed) ==
  LET found == { u \in rows : u.id = userId } IN
    IF failed THEN "onboarding"
    ELSE IF found = {} THEN "onboarding"
    ELSE IF (CHOOSE u \in found : TRUE).business_id # NoBusiness THEN "dashboard"
    ELSE "onboarding"

\* checkAuth / onAuthStateChange of the browser signed in as userId.
loadUserProfile(userId, failed) ==
  /\ appState' = [appState EXCEPT ![userId] =
                    loadUserProfileState(users, userId, failed)]
  /\ UNCHANGED <<now, authUsers, users, invite_codes, user_invitations,
                 inviteSeq, granted, redeem, ret, creating, inviting, accepting,
                 businesses>>

\* The ids the businesses table gives to new rows.
NewBusinesses == {"T3", "T4"}

\* handleBusinessSetup of the browser signed in as userId; the form is on
\* screen while appState is "onboarding". Insert the business, upsert the
\* users row on its id, reload the profile.
handleBusinessSetup(userId, businessFailed, userFailed, reloadFailed) ==
  /\ appState[userId] = "onboarding"
  /\ LET call == [NoRet EXCEPT !.op = "handleBusinessSetup", !.user = Some(userId)]
         email == (CHOOSE a \in authUsers : a.id = userId).email
     IN
       IF businessFailed
         THEN /\ ret' = [call EXCEPT !.err = "BusinessCreationFailed"]
              /\ UNCHANGED <<businesses, users, appState>>
         ELSE \E business \in NewBusinesses \ businesses :
                /\ businesses' = businesses \cup {business}
                /\ IF userFailed
                     THEN /\ ret' = [call EXCEPT !.err = "UserProfileUpdateFailed",
                                                 !.business = business]
                          /\ UNCHANGED <<users, appState>>
                     ELSE /\ users' = { u \in users : u.id # userId }
                                        \cup { Member(userId, email, business, "owner") }
                          /\ ret' = [call EXCEPT !.err = "ok", !.business = business,
                                                 !.role = "owner"]
                          /\ appState' = [appState EXCEPT ![userId] =
                               loadUserProfileState(users', userId, reloadFailed)]
  /\ UNCHANGED <<now, authUsers, invite_codes, user_invitations, inviteSeq,
                 granted, redeem, creating, inviting, accepting>>

\* Onboarding: the two browsers load their profile, which may fail, and
\* submit the business form when it is on screen.
NextOnboard ==
  \/ \E u \in AppUsers, failed \in BOOLEAN : loadUserProfile(u, failed)
  \/ \E u \in AppUsers, businessFailed, userFailed, reloadFailed \in BOOLEAN :
       handleBusinessSetup(u, businessFailed, userFailed, reloadFailed)
  \/ Tick

SpecOnboard == Init /\ [][NextOnboard]_vars

\* --------------------------------------------- InvitationAcceptanceSection
\* The end of a section's call with an error shown.
AcceptFail(a, result) ==
  accepting' = [accepting EXCEPT ![a].pc = "done", ![a].result = result]

\* loadInvitationDetails of the section opened with `token`:
\* .eq('token', token).is('accepted_at', null).gt('expires_at', now).single()
loadInvitationDetails(a, token) ==
  /\ accepting[a].pc = "idle"
  /\ LET found == { i \in user_invitations :
                      /\ i.token = token
                      /\ IsNull(i.accepted_at)
                      /\ i.expires_at > now }
     IN
       IF Cardinality(found) # 1
         THEN accepting' = [accepting EXCEPT ![a].pc = "done", ![a].token = token,
                                             ![a].result = "InvalidOrExpired"]
         ELSE LET inviteData == CHOOSE i \in found : TRUE IN
                accepting' = [accepting EXCEPT
                  ![a].pc = "loaded", ![a].token = token, ![a].loadedAt = now,
                  ![a].invitation = Some([id |-> inviteData.id,
                                          email |-> inviteData.email,
                                          role |-> inviteData.role,
                                          expires_at |-> inviteData.expires_at])]
  /\ UNCHANGED <<now, authUsers, users, user_invitations, invite_codes,
                 inviteSeq, granted, redeem, ret, creating, inviting, appState,
                 businesses>>

\* handleAcceptInvitation, first await: supabase.auth.signUp with the e-mail
\* of the loaded invitation. For a new address the provider creates an
\* identity ("created") or refuses; for an address that has one it refuses,
\* or answers with a made-up user (id 0) or with the unconfirmed identity.
AcceptSignUp(a, outcome) ==
  /\ accepting[a].pc = "loaded"
  /\ LET email == Val(accepting[a].invitation).email
         known == { u \in authUsers : toLowerCase(u.email) = toLowerCase(email) }
         id == Cardinality(authUsers) + 1
     IN
       \/ /\ outcome = "refused"
          /\ AcceptFail(a, "AuthError")
          /\ UNCHANGED authUsers
       \/ /\ outcome = "created"
          /\ known = {}
          /\ authUsers' = authUsers \cup { [id |-> id, email |-> email] }
          /\ accepting' = [accepting EXCEPT ![a].pc = "signedUp",
                                            ![a].authId = Some(id)]
       \/ /\ outcome \in {"obfuscated", "unconfirmed"}
          /\ \E u \in known :
               accepting' = [accepting EXCEPT
                 ![a].pc = "signedUp",
                 ![a].authId = IF outcome = "unconfirmed" THEN Some(u.id) ELSE Some(0)]
          /\ UNCHANGED authUsers
  /\ UNCHANGED <<now, users, user_invitations, invite_codes, inviteSeq, granted,
                 redeem, ret, creating, inviting, appState, businesses>>

\* Second await: .select('business_id').eq('id', invitation.id).single()
AcceptReadBusiness(a) ==
  /\ accepting[a].pc = "signedUp"
  /\ LET found == { i \in user_invitations :
                      i.id = Val(accepting[a].invitation).id }
     IN
       IF Cardinality(found) # 1
         THEN AcceptFail(a, "InvitationNotFound")
         ELSE accepting' = [accepting EXCEPT
                ![a].pc = "read",
                ![a].business_id = (CHOOSE i \in found : TRUE).business_id]
  /\ UNCHANGED <<now, authUsers, users, user_invitations, invite_codes,
                 inviteSeq, granted, redeem, ret, creating, inviting, appState,
                 businesses>>

\* Third await: the users insert with the role of the loaded invitation.
AcceptInsertProfile(a, failed) ==
  /\ accepting[a].pc = "read"
  /\ LET invitation == Val(accepting[a].invitation)
         id == Val(accepting[a].authId)
     IN
       IF failed \/ ~hasIdentity(id) \/ \E u \in users : u.id = id
         THEN /\ AcceptFail(a, "ProfileError")
              /\ UNCHANGED users
         ELSE /\ users' = users \cup { Member(id, invitation.email,
                                              accepting[a].business_id,
                                              invitation.role) }
              /\ accepting' = [accepting EXCEPT ![a].pc = "profiled"]
  /\ UNCHANGED <<now, authUsers, user_invitations, invite_codes, inviteSeq,
                 granted, redeem, ret, creating, inviting, appState, businesses>>

\* Fourth await: .update({accepted_at: now}).eq('id', invitation.id); an
\* update error is thrown, otherwise onSuccess().
AcceptMark(a, failed) ==
  /\ accepting[a].pc = "profiled"
  /\ IF failed
       THEN /\ AcceptFail(a, "UpdateError")
            /\ UNCHANGED user_invitations
       ELSE /\ user_invitations' =
                 { IF i.id = Val(accepting[a].invitation).id
                     THEN [i EXCEPT !.accepted_at = Some(now)] ELSE i
                   : i \in user_invitations }
            /\ accepting' = [accepting EXCEPT ![a].pc = "done", ![a].result = "ok"]
  /\ UNCHANGED <<now, authUsers, users, invite_codes, inviteSeq, granted,
                 redeem, ret, creating, inviting, appState, businesses>>

\* The clock moves on by the lifetime of a token (a page left open).
WeekPasses ==
  /\ now <= MaxTime
  /\ now' = now + TokenExpiryDays
  /\ UNCHANGED <<authUsers, users, invite_codes, user_invitations, inviteSeq,
                 granted, redeem, ret, creating, inviting, accepting, appState,
                 businesses>>

\* Acceptance: the owner of T1 invites an address by token, two browser
\* sessions open the link and accept, and time passes.
NextAccept ==
  \/ \E role \in {"manager", "staff"} : createInvitation(Owner1, "T1", EmailB, role)
  \/ \E a \in AcceptSessions, token \in 1..(MaxInvitations + 1) :
       loadInvitationDetails(a, token)
  \/ \E a \in AcceptSessions,
        outcome \in {"created", "refused", "obfuscated", "unconfirmed"} :
       AcceptSignUp(a, outcome)
  \/ \E a \in AcceptSessions : AcceptReadBusiness(a)
  \/ \E a \in AcceptSessions, failed \in BOOLEAN : AcceptInsertProfile(a, failed)
  \/ \E a \in AcceptSessions, failed \in BOOLEAN : AcceptMark(a, failed)
  \/ Tick
  \/ WeekPasses

SpecAccept == Init /\ [][NextAccept]_vars

\* --------------------------------------- createInvitation, await by await
InviteFail(n, err) ==
  inviting' = [inviting EXCEPT ![n].pc = "done", ![n].err = err]

\* getCurrentUserProfile() and the permission test of a call by inviter n.
InviteBegin(n, user, businessId, email, role) ==
  /\ inviting[n].pc = "idle"
  /\ LET call == [IdleInvite EXCEPT !.user = user, !.businessId = businessId,
                                    !.email = email, !.role = role]
     IN
       inviting' = [inviting EXCEPT ![n] =
         IF createInvitationDenied(user, businessId)
           THEN [call EXCEPT !.pc = "done", !.err = "Unauthorized"]
           ELSE [call EXCEPT !.pc = "checkingUser"]]
  /\ UNCHANGED <<now, authUsers, users, invite_codes, user_invitations,
                 inviteSeq, granted, redeem, ret, creating, accepting, appState,
                 businesses>>

\* The lookup of a users row with this e-mail.
InviteCheckUser(n) ==
  /\ inviting[n].pc = "checkingUser"
  /\ IF existingUser(inviting[n].email)
       THEN InviteFail(n, "AlreadyRegistered")
       ELSE inviting' = [inviting EXCEPT ![n].pc = "checkingInvite"]
  /\ UNCHANGED <<now, authUsers, users, invite_codes, user_invitations,
                 inviteSeq, granted, redeem, ret, creating, accepting, appState,
                 businesses>>

\* The lookup of a pending invitation for (businessId, email), .single().
InviteCheckPending(n) ==
  /\ inviting[n].pc = "checkingInvite"
  /\ IF Cardinality(pendingInvitations(inviting[n].businessId, inviting[n].email)) = 1
       THEN InviteFail(n, "AlreadyInvited")
       ELSE inviting' = [inviting EXCEPT ![n].pc = "inserting"]
  /\ UNCHANGED <<now, authUsers, users, invite_codes, user_invitations,
                 inviteSeq, granted, redeem, ret, creating, accepting, appState,
                 businesses>>

\* The insert, with a fresh token and the expiry seven days ahead.
InviteInsert(n, failed) ==
  /\ inviting[n].pc = "inserting"
  /\ IF failed
       THEN /\ InviteFail(n, "InsertFailed")
            /\ UNCHANGED user_invitations
       ELSE LET token == Cardinality(user_invitations) + 1 IN
              /\ user_invitations' = user_invitations \cup
                   { [id |-> token, business_id |-> inviting[n].businessId,
                      email |-> inviting[n].email, role |-> inviting[n].role,
                      invited_by |-> Val(inviting[n].user), token |-> token,
                      expires_at |-> now + TokenExpiryDays, accepted_at |-> None,
                      created_at |-> now] }
              /\ inviting' = [inviting EXCEPT ![n].pc = "done", ![n].err = "ok"]
  /\ UNCHANGED <<now, authUsers, users, invite_codes, inviteSeq, granted,
                 redeem, ret, creating, accepting, appState, businesses>>

\* Inviting: the owner and the manager of T1 each make one createInvitation
\* call, for addresses that are new or belong to a member, as time passes.
NextInvite ==
  \/ \E n \in Inviters, user \in {Owner1, Manager1, Staff1},
        email \in {EmailB, EmailLowerA, OwnerEmail}, role \in {"manager", "staff"} :
       InviteBegin(n, user, "T1", email, role)
  \/ \E n \in Inviters : InviteCheckUser(n)
  \/ \E n \in Inviters : InviteCheckPending(n)
  \/ \E n \in Inviters, failed \in BOOLEAN : InviteInsert(n, failed)
  \/ Tick

SpecInvite == Init /\ [][NextInvite]_vars

\* ----------------------------------------------------------------- claims
InvitableRoles == {"manager", "staff"}

membersFrom(inviteId) == { g.member : g \in { h \in granted : h.invite = inviteId } }

\* The inviter check as the specification words it: the acting member
\* belongs to the tenant and is its owner or a manager.
IsInviter(user, businessId) ==
  /\ ~IsNull(user)
  /\ \E u \in users :
       /\ u.id = Val(user)
       /\ u.business_id = businessId
       /\ u.role \in {"owner", "manager"}

\* C1: two redeem calls that present the same existing, unbound code with
\* different recipient e-mails end with exactly one success and one
\* AlreadyUsed, and with at most one member record from that invitation.
C1_OneRedeemWins ==
  \A c, d \in Clients :
    ( /\ c # d
      /\ redeem[c].pc = "done" /\ redeem[d].pc = "done"
      /\ redeem[c].code = redeem[d].code
      /\ redeem[c].email # redeem[d].email
      /\ redeem[c].result # "NotFound" /\ redeem[d].result # "NotFound"
      /\ \E r \in invite_codes : r.code = redeem[c].code /\ IsNull(r.email) )
    => /\ {redeem[c].result, redeem[d].result} = {"ok", "AlreadyUsed"}
       /\ \A r \in invite_codes :
            r.code = redeem[c].code => Cardinality(membersFrom(r.id)) <= 1

\* C2: each invitation results in at most one member record.
C2_RedeemableOnce ==
  \A i \in 1..inviteSeq : Cardinality(membersFrom(i)) <= 1

\* C3: a create with target role owner is rejected and writes no row.
C3_OwnerRoleRejected ==
  /\ (ret.op \in {"createInviteCode", "createInvitation"} /\ ret.role = "owner")
       => ret.err # "ok"
  /\ \A r \in invite_codes : r.role # "owner"
  /\ \A i \in user_invitations : i.role # "owner"

\* C4: every invitation has target role manager or staff, and so has every
\* member record a redeem wrote.
C4_NoOwnerGrant ==
  /\ \A r \in invite_codes : r.role \in InvitableRoles
  /\ \A g \in granted : \A u \in users : u.id = g.member => u.role \in InvitableRoles

\* A step that completes a create call: its outcome against the inviter check.
C5_CreateStep ==
  (ret' # ret /\ ret'.op \in {"createInviteCode", "createInvitation"})
    => /\ IsInviter(ret'.user, ret'.business)
            <=> ret'.err \notin {"NotAuthenticated", "Unauthorized"}
       /\ ~IsInviter(ret'.user, ret'.business)
            => /\ invite_codes' = invite_codes
               /\ user_invitations' = user_invitations

C6_InviterCheckOnListAndDelete ==
  ( /\ ret.op \in {"getTeamData", "getBusinessInviteCodes", "handleDeleteInviteCode"}
    /\ ~IsInviter(ret.user, ret.business) )
  => ret.err = "Unauthorized"

\* A step that removes rows of invite_codes: what removed them.
C7_DeleteStep ==
  \A r \in invite_codes :
    r \notin invite_codes'
      => /\ ret'.op = "handleDeleteInviteCode"
         /\ ret'.id = r.id
         /\ ret'.business = r.business_id

\* C7: a row leaves invite_codes only through a delete issued with that
\* row's id and that row's own business_id; a delete issued for another
\* tenant leaves it, and every other row, in place.
C7_DeleteIsTenantScoped == [][C7_DeleteStep]_vars

\* C7 witness: a delete was issued for tenant T2 with the id of a T1
\* invitation, and that invitation is still there.
C7_Witness ==
  /\ ret.op = "handleDeleteInviteCode" /\ ret.business = "T2"
  /\ \E r \in invite_codes : r.id = ret.id /\ r.business_id = "T1"

\* C8: a delete whose id belongs to an invitation of another tenant reports
\* NotFound or Unauthorized, never success.
C8_CrossTenantDeleteFails ==
  ( /\ ret.op = "handleDeleteInviteCode"
    /\ \E r \in invite_codes : r.id = ret.id /\ r.business_id # ret.business )
  => ret.err \in {"NotFound", "Unauthorized"}

\* C9: for a well-formed code that exists in the store, validate succeeds
\* exactly when used_at is null and now < expires_at, and an unconsumed
\* invitation fails with Expired from now = expires_at on.
C9_UsableIffBeforeExpiry ==
  \A code \in Presented : \A r \in invite_codes :
    (isValidInviteCodeFormat(code) /\ r.code = toUpperCase(code))
      => /\ validateInviteCode(code).err = "ok"
              <=> (IsNull(r.used_at) /\ now < r.expires_at)
         /\ (IsNull(r.used_at) /\ now >= r.expires_at)
              => validateInviteCode(code).err = "Expired"

\* Two characters that differ at most in letter case.
CasePairs == { {"a", "A"}, {"b", "B"}, {"x", "X"} }
SameIgnoringCase(s, t) ==
  /\ Len(s) = Len(t)
  /\ \A i \in 1..Len(s) : s[i] = t[i] \/ {s[i], t[i]} \in CasePairs

\* State part of C10: a redeem call that got past the binding check, or
\* returned success, holds an invitation with no bound e-mail or with one
\* equal to the recipient's ignoring case; a call that failed with
\* EmailMismatch created no identity and no member.
C10_BoundEmailHolds ==
  \A c \in Clients :
    /\ ~IsNull(redeem[c].inviteCode)
         => \/ IsNull(Val(redeem[c].inviteCode).email)
            \/ SameIgnoringCase(Val(redeem[c].inviteCode).email, redeem[c].email)
    /\ redeem[c].result = "ok" => ~IsNull(redeem[c].inviteCode)
    /\ redeem[c].result = "EmailMismatch"
         => IsNull(redeem[c].authId) /\ IsNull(redeem[c].inviteCode)

\* Step part of C10: a call that presents a valid code goes on exactly when
\* the invitation has no bound e-mail or the recipient's e-mail equals it
\* ignoring case; otherwise it ends there with EmailMismatch, the identities
\* and the members untouched.
C10_BindingStep ==
  \A c \in Clients :
    ( /\ redeem[c].pc = "idle" /\ redeem'[c].pc # "idle"
      /\ validateInviteCode(redeem'[c].code).err = "ok" )
      => LET bound == Val(validateInviteCode(redeem'[c].code).row).email IN
           IF IsNull(bound) \/ SameIgnoringCase(bound, redeem'[c].email)
             THEN redeem'[c].pc = "validated"
             ELSE /\ redeem'[c].pc = "done"
                  /\ redeem'[c].result = "EmailMismatch"
                  /\ authUsers' = authUsers
                  /\ users' = users

\* C10: with a bound e-mail, redeem succeeds only for a recipient e-mail equal
\* to it ignoring letter case; any other recipient fails with EmailMismatch
\* before an identity or a member is created; an unbound invitation accepts
\* any recipient e-mail.
C10_EmailBinding == []C10_BoundEmailHolds /\ [][C10_BindingStep]_vars

\* C10 witness: a code bound to a@x was redeemed with A@X, and another call
\* on a bound code ended with EmailMismatch.
C10_Witness ==
  \E c, d \in Clients :
    /\ redeem[c].result = "ok"
    /\ Val(redeem[c].inviteCode).email = EmailLowerA
    /\ redeem[c].email = EmailUpperA
    /\ redeem[d].result = "EmailMismatch"
    /\ redeem[d].email = EmailB

\* State part of C11: no two member records hold the same e-mail address,
\* also when letter case is ignored, and a call that ended with
\* AlreadyRegistered obtained no identity.
C11_EmailsDistinct ==
  /\ \A u, v \in users : toLowerCase(u.email) = toLowerCase(v.email) => u = v
  /\ \A c \in Clients :
       redeem[c].result = "AlreadyRegistered" => IsNull(redeem[c].authId)

\* Step part of C11: a call that reaches the existing-member check with an
\* address some member of any tenant holds ends there with
\* AlreadyRegistered, the identities untouched.
C11_CheckStep ==
  \A c \in Clients :
    ( /\ redeem[c].pc = "validated" /\ redeem'[c] # redeem[c]
      /\ \E u \in users : u.email = redeem[c].email )
      => /\ redeem'[c].pc = "done"
         /\ redeem'[c].result = "AlreadyRegistered"
         /\ authUsers' = authUsers

C12_ConsumedStep ==
  \A r \in invite_codes :
    ~IsNull(r.used_at)
      => \E q \in invite_codes' :
           q.id = r.id /\ q.used_at = r.used_at /\ q.used_by = r.used_by

\* C12: once an invitation's used_at is set, no later operation changes its
\* used_at or used_by or clears them; the mark-used update applied to a
\* consumed invitation never overwrites.
C12_ConsumedIsImmutable == [][C12_ConsumedStep]_vars

\* The invitation a call presented, looked up in the store by its code.
presentedInvite(c) == { r \in invite_codes : r.code = toUpperCase(redeem[c].code) }

\* The member write of a call: the row it adds has the identity's id, the
\* recipient's e-mail, the business_id and role of the invitation presented
\* and is_active true, and no other row is added or changed.
C13_WriteStep ==
  \A c \in Clients :
    (redeem[c].pc = "signedUp" /\ redeem'[c].pc = "profiled")
      => \E r \in presentedInvite(c) :
           LET row == [id |-> Val(redeem[c].authId), email |-> redeem[c].email,
                       business_id |-> r.business_id, role |-> r.role,
                       is_active |-> TRUE]
           IN /\ row \in users'
              /\ \E a \in authUsers :
                   a.id = row.id /\ toLowerCase(a.email) = toLowerCase(row.email)
              /\ \A u \in users' : u \notin users => u = row
              /\ \A u \in users : u \notin users' => u.id = row.id
              /\ [invite |-> r.id, member |-> row.id] \in granted'

\* The return of a call: the id of the member it wrote and the business_id of
\* the invitation presented.
C13_ReturnStep ==
  \A c \in Clients :
    (redeem[c].pc # "done" /\ redeem'[c].result = "ok")
      => \E r \in presentedInvite(c) :
           /\ [invite |-> r.id, member |-> Val(redeem[c].authId)] \in granted
           /\ redeem'[c].returned =
                Some([userId |-> Val(redeem[c].authId), businessId |-> r.business_id])

\* C13: a successful redeem writes a member record whose id is the identity
\* of the recipient, with the recipient's e-mail, the invitation's
\* business_id and role and is_active true, and returns that member id and
\* that business id; no redeem places a member in a tenant other than that
\* of the invitation redeemed.
C13_MemberFromInvitation == [][C13_WriteStep /\ C13_ReturnStep]_vars

\* C13 witness: one call redeemed a manager code of T1 and the other a staff
\* code of T2, both with success.
C13_Witness ==
  \E c, d \in Clients :
    /\ redeem[c].result = "ok" /\ Val(redeem[c].inviteCode).business_id = "T1"
    /\ Val(redeem[c].inviteCode).role = "manager"
    /\ redeem[d].result = "ok" /\ Val(redeem[d].inviteCode).business_id = "T2"

\* A step seen from a member of a tenant: the record keeps its business_id
\* and its role.
C14_MemberStep ==
  \A u \in users :
    u.business_id \in Tenants
      => \E v \in users' :
           v.id = u.id /\ v.business_id = u.business_id /\ v.role = u.role

\* C14: once a member record's business_id is set, no redeem changes that
\* business_id or the member's role: the member write of redeem never
\* overwrites an existing member of any tenant.
C14_NoTenantTransfer == [][C14_MemberStep]_vars

\* A step that completes a validateInviteCode call: its outcome against the
\* store, check by check.
C15_ValidateStep ==
  (ret' # ret /\ ret'.op = "validateInviteCode")
    => LET code == ret'.code
           rows == { r \in invite_codes : r.code = toUpperCase(code) }
       IN
         /\ ~isValidInviteCodeFormat(code)
              => ret'.err = "MalformedCredential" /\ ret'.lookups = 0
         /\ (isValidInviteCodeFormat(code) /\ rows = {})
              => ret'.err = "NotFound"
         /\ (isValidInviteCodeFormat(code) /\ \E r \in rows : ~IsNull(r.used_at))
              => ret'.err = "AlreadyUsed"
         /\ ( /\ isValidInviteCodeFormat(code)
              /\ \E r \in rows : IsNull(r.used_at) /\ now > r.expires_at )
              => ret'.err = "Expired"

\* C15: validate applies its checks in the order format, existence,
\* consumed, expiry and stops at the first failure: a malformed credential
\* fails with MalformedCredential without a store lookup, an unknown one with
\* NotFound, and an invitation both consumed and expired with AlreadyUsed.
C15_CheckOrder == [][C15_ValidateStep]_vars

\* C15 witness: validate has just answered AlreadyUsed for an invitation that
\* is consumed and past its expiry.
C15_Witness ==
  /\ ret.op = "validateInviteCode" /\ ret.err = "AlreadyUsed"
  /\ \E r \in invite_codes :
       /\ r.code = toUpperCase(ret.code)
       /\ ~IsNull(r.used_at)
       /\ now > r.expires_at

\* A step that completes a validateInviteCode call: the store is as before,
\* and validating the same code again gives the same answer.
C16_ValidateStep ==
  (ret' # ret /\ ret'.op = "validateInviteCode")
    => /\ invite_codes' = invite_codes
       /\ user_invitations' = user_invitations
       /\ users' = users
       /\ authUsers' = authUsers
       /\ \A code \in Presented :
            code = ret'.code
              => /\ validateInviteCode(code).err = ret'.err
                 /\ validateInviteCode(code)'.err = ret'.err

\* C16: validate changes no stored state: after any validate call on any
\* credential every invitation and every member record is unchanged, and a
\* pending invitation is still pending and gives the same validate result.
C16_ValidateIsReadOnly == [][C16_ValidateStep]_vars

\* C16 witness: validate has answered with a pending invitation, and that
\* invitation is in the store as it was returned.
C16_Witness ==
  /\ ret.op = "validateInviteCode" /\ ret.err = "ok"
  /\ \E r \in invite_codes :
       ret.row = Some(r) /\ IsNull(r.used_at) /\ now <= r.expires_at

\* The failures of redeem before the member write.
EarlyFailures ==
  {"MalformedCredential", "NotFound", "AlreadyUsed", "Expired",
   "EmailMismatch", "AlreadyRegistered", "AuthError"}

\* State part of C17: a call that ended with one of these failures obtained
\* no identity and returned nothing.
C17_FailedEarly ==
  \A c \in Clients :
    redeem[c].result \in EarlyFailures
      => IsNull(redeem[c].authId) /\ IsNull(redeem[c].returned)

\* Step part of C17: a step of a call that has no identity yet propagates
\* the validator's error when there is one, and leaves every member record
\* and every invitation as it was.
C17_EarlyStep ==
  \A c \in Clients :
    (redeem[c].pc \in {"idle", "validated", "checked"} /\ redeem'[c] # redeem[c])
      => /\ users' = users
         /\ invite_codes' = invite_codes
         /\ ( /\ redeem[c].pc = "idle"
              /\ validateInviteCode(redeem'[c].code).err # "ok" )
              => /\ redeem'[c].pc = "done"
                 /\ redeem'[c].result = validateInviteCode(redeem'[c].code).err

\* C17: a redeem that fails at validation (also for a code validated earlier
\* and consumed or expired since), at the e-mail binding check, at the
\* existing-member check or at identity creation creates or changes no
\* member record and leaves the invitation's used_at and used_by unchanged.
C17_EarlyFailureWritesNothing == []C17_FailedEarly /\ [][C17_EarlyStep]_vars

\* C17 witness: a code validated with success earlier has expired and a
\* redeem of it failed with Expired, while another redeem was refused by the
\* identity provider.
C17_Witness ==
  \E c, d \in Clients :
    /\ ret.op = "validateInviteCode" /\ ret.err = "ok"
    /\ redeem[c].result = "Expired" /\ redeem[c].code = ret.code
    /\ redeem[d].result = "AuthError"

\* C18: after a redeem whose identity was created and whose member write
\* failed (ProfileProvisioningFailed), a second redeem with the same
\* credential and the same e-mail succeeds with a member whose id is that
\* identity, and no second identity exists for the address.
C18_RetryRepairs ==
  ( /\ redeem["c1"].result = "ProfileProvisioningFailed"
    /\ ~IsNull(redeem["c1"].authId)
    /\ hasIdentity(Val(redeem["c1"].authId))
    /\ redeem["c2"].pc = "done"
    /\ redeem["c2"].code = redeem["c1"].code
    /\ redeem["c2"].email = redeem["c1"].email )
  => /\ redeem["c2"].result = "ok"
     /\ redeem["c2"].authId = redeem["c1"].authId
     /\ \E u \in users : u.id = Val(redeem["c1"].authId)
     /\ Cardinality({ a \in authUsers :
                        toLowerCase(a.email) = toLowerCase(redeem["c1"].email) }) = 1

\* State part of C19: a call whose mark-used update failed returned success
\* with the member id and the business id, and its member record is there.
C19_GrantStands ==
  \A c \in Clients :
    redeem[c].updateError
      => /\ redeem[c].result = "ok"
         /\ redeem[c].returned =
              Some([userId |-> Val(redeem[c].authId),
                    businessId |-> Val(redeem[c].inviteCode).business_id])
         /\ \E u \in users : u.id = Val(redeem[c].authId)

\* Step part of C19: the step in which the update fails changes no member
\* record and no invitation, so a used_at that was null stays null.
C19_FailedUpdateStep ==
  \A c \in Clients :
    (~redeem[c].updateError /\ redeem'[c].updateError)
      => users' = users /\ invite_codes' = invite_codes

\* C19: if the mark-used update fails after the member record was written,
\* redeem still returns success with the member id and business id, the
\* member record is not rolled back and the invitation stays with used_at
\* null.
C19_MarkFailureIsNotFatal == []C19_GrantStands /\ [][C19_FailedUpdateStep]_vars

\* C19 witness: a call returned success although its update failed, its
\* member record exists and the invitation it redeemed has used_at null.
C19_Witness ==
  \E c \in Clients :
    /\ redeem[c].updateError /\ redeem[c].result = "ok"
    /\ \E u \in users : u.id = Val(redeem[c].authId)
    /\ \E r \in presentedInvite(c) : IsNull(r.used_at)

\* State part of C20: the invitation of a call that returned success, its
\* update not having failed, has used_at set, and validate on the code the
\* call presented answers AlreadyUsed.
C20_Consumed ==
  \A c \in Clients :
    (redeem[c].result = "ok" /\ ~redeem[c].updateError)
      => /\ \E r \in presentedInvite(c) : ~IsNull(r.used_at)
         /\ validateInviteCode(redeem[c].code).err = "AlreadyUsed"

\* Step part of C20: when such a call returns, the invitation it redeemed has
\* used_at set and used_by equal to the member id the call returns.
C20_ReturnStep ==
  \A c \in Clients :
    (redeem[c].pc # "done" /\ redeem'[c].result = "ok" /\ ~redeem'[c].updateError)
      => \E r \in invite_codes' :
           /\ r.code = toUpperCase(redeem'[c].code)
           /\ ~IsNull(r.used_at)
           /\ ~IsNull(redeem'[c].returned)
           /\ r.used_by = Some(Val(redeem'[c].returned).userId)

C21_CodesDistinct ==
  \A r, q \in invite_codes : r.code = q.code => r = q

\* C21 witness: two concurrent calls both found no row for the same code;
\* one persisted it and the insert of the other was rejected.
C21_Witness ==
  \E k, l \in Creators :
    /\ k # l
    /\ creating[k].code = creating[l].code
    /\ ~creating[k].existing /\ ~creating[l].existing
    /\ creating[k].err = "ok"
    /\ creating[l].err = "InsertFailed"
    /\ \E r \in invite_codes : r.code = creating[k].code /\ r.created_by = creating[k].user

\* C22: every persisted invitation expires strictly after its creation,
\* whatever expiryDays the call was given: a short code 1 to 30 days after,
\* a token invitation 7 days after.
C22_ExpiryInFuture ==
  /\ \A r \in invite_codes :
       /\ r.expires_at > r.created_at
       /\ r.expires_at - r.created_at \in 1..30
  /\ \A i \in user_invitations : i.expires_at = i.created_at + 7

\* C23: a validate call that directly follows a successful create of an
\* unbound seven-day code and presents the returned code, in upper or lower
\* case, succeeds with a pending invitation (used_at null) of the tenant and
\* the role the create was given.
C23_RoundTrip ==
  [][ ( /\ ret.op = "createInviteCode"
        /\ ret.err = "ok"
        /\ ret'.op = "validateInviteCode"
        /\ ret'.code \in {ret.code, toLowerCase(ret.code)} )
      => /\ ret'.err = "ok"
         /\ ~IsNull(ret'.row)
         /\ IsNull(Val(ret'.row).used_at)
         /\ Val(ret'.row).code = ret.code
         /\ Val(ret'.row).business_id = ret.business
         /\ Val(ret'.row).role = ret.role ]_vars

\* A code of tenant T2 with role manager, issued at this moment, has been
\* validated from its lower-case spelling.
C23_Witness ==
  /\ ret.op = "validateInviteCode"
  /\ ret.err = "ok"
  /\ \E c \in CodePool : ret.code = toLowerCase(c) /\ ret.code # c
  /\ Val(ret.row).business_id = "T2"
  /\ Val(ret.row).role = "manager"
  /\ Val(ret.row).created_at = now

\* C24: a link whose invite parameter writes a stored code C in any letter
\* case, with or without hyphen separators, is normalized to exactly C
\* before the code is passed to the validator.
C24_LinkNormalized ==
  ret.op \in {"openInviteLink", "extractInviteCodeFromUrl"} =>
    \A r \in invite_codes :
      ret.param \in LinkForms(r.code) => ret.code = r.code

\* C25: every code of generateCode has length 8, four letters A-Z then four
\* digits, and passes isValidInviteCodeFormat; isValidInviteCodeFormat
\* accepts exactly the strings of four letters followed by four digits,
\* letters in either case.
C25_FormatExact ==
  /\ ret.op = "generateCode" =>
       /\ Len(ret.code) = 8
       /\ \A i \in 1..4 : ret.code[i] \in UpperLetters
       /\ \A i \in 5..8 : ret.code[i] \in DigitChars
       /\ isValidInviteCodeFormat(ret.code)
  /\ ret.op = "isValidInviteCodeFormat" =>
       ( ret.err = "true" <=>
           /\ Len(ret.param) = 8
           /\ \A i \in 1..4 :
                ret.param[i] \in UpperLetters \cup { toLowerCaseChar(c) : c \in UpperLetters }
           /\ \A i \in 5..8 : ret.param[i] \in DigitChars )

\* C26: getBusinessInviteCodes for tenant T returns exactly the invitations
\* whose business_id is T, each once and none of another tenant, ordered by
\* creation time with the newest first.
C26_ListByTenant ==
  [][ ret'.op = "getBusinessInviteCodes" =>
        LET rows == ret'.rows
            n == Cardinality(DOMAIN rows)
        IN /\ DOMAIN rows = 1..n
           /\ { rows[i] : i \in 1..n } =
                { r \in invite_codes' : r.business_id = ret'.business }
           /\ \A i, j \in 1..n : i # j => rows[i] # rows[j]
           /\ \A i, j \in 1..n : i < j => rows[i].created_at >= rows[j].created_at ]_vars

\* Tenant T1 was listed while it held two codes issued at different times.
C26_Witness ==
  /\ ret.op = "getBusinessInviteCodes"
  /\ ret.business = "T1"
  /\ Cardinality(DOMAIN ret.rows) = 2
  /\ ret.rows[1].created_at > ret.rows[2].created_at

\* C27: a createInviteCode call makes at most 10 generation attempts; it
\* goes on to the insert only with a code for which the existence lookup
\* answered and found no row, a failed lookup not counting as such an answer;
\* it fails with the generation-exhausted error only after 10 codes that all
\* exist.
C27_BoundedGeneration ==
  \A k \in Creators :
    /\ creating[k].attempts <= maxAttempts
    /\ creating[k].pc = "inserting" =>
         /\ ~creating[k].existing
         /\ ~creating[k].lookupFailed
    /\ creating[k].err = "ok" => ~creating[k].lookupFailed
    /\ creating[k].err = "GenerationExhausted" =>
         /\ creating[k].attempts = maxAttempts
         /\ creating[k].existing

\* C28: no step changes the tenant or the role of a user who has a member
\* record with a business: the onboarding upsert runs only for users that
\* have no tenant, also after a failed profile load.
C28_SetupKeepsTenant ==
  [][ \A r \in users :
        r.business_id # NoBusiness =>
          \E q \in users' : /\ q.id = r.id
                            /\ q.business_id = r.business_id
                            /\ q.role = r.role ]_vars

\* C29: a step of an acceptance session that creates the account (the
\* identity or the member record) is taken for the invitation of the token
\* the session was opened with, while that invitation is unaccepted and
\* unexpired at that moment, and the member record carries the e-mail, role
\* and business of that invitation.
C29_AcceptStep ==
  \A a \in AcceptSessions :
    ( /\ accepting'[a] # accepting[a]
      /\ users' # users \/ authUsers' # authUsers )
    => \E i \in user_invitations :
         /\ i.id = Val(accepting[a].invitation).id
         /\ i.token = accepting[a].token
         /\ IsNull(i.accepted_at)
         /\ i.expires_at > now
         /\ users' # users =>
              users' = users \cup { Member(Val(accepting[a].authId), i.email,
                                           i.business_id, i.role) }

C29_AcceptOnlyWhilePending == [][C29_AcceptStep]_vars

\* C30: there are never two pending, unexpired token invitations for the
\* same business and e-mail, also when two createInvitation calls for the
\* pair run concurrently.
C30_OnePendingPerAddress ==
  \A i, j \in user_invitations :
    ( /\ i.business_id = j.business_id
      /\ i.email = j.email
      /\ IsNull(i.accepted_at) /\ i.expires_at > now
      /\ IsNull(j.accepted_at) /\ j.expires_at > now )
    => i = j
====
